---- MODULE Spec2Model ----
(***************************************************************************)
(* Model of doctor-voice-poc (src/server.js): the POST /transcribe request *)
(* handler (upload -> transcode -> transcribe -> summarize -> cleanup ->   *)
(* respond), the language mapper, and the browser client's upload.         *)
(*                                                                         *)
(* JavaScript strings are sequences of tokens (a token is a run of         *)
(* characters), so that concatenation, trim and the template literal are   *)
(* computed.  A JavaScript value that may be undefined or null is a tagged *)
(* record.  One action is one synchronous run of code between two awaits.  *)
(***************************************************************************)
EXTENDS Integers, Sequences, FiniteSets, TLC

\* ---------------------------------------------------------------- bounds
NumReq == 2          \* request slots that may be in flight together
MaxTagLen == 3       \* tokens in a submitted language tag (LangSpec)
MaxRec == 2          \* recordings the client starts (ClientSpec)

Req == 1..NumReq

\* invocations of startRecording, each with the MediaRecorder it creates
Rec == 1..MaxRec

\* ------------------------------------------------------ JavaScript values
Undefined == [t |-> "undefined"]
Null == [t |-> "null"]
Str(s) == [t |-> "string", v |-> s]

\* truthiness of undefined, null and strings: only a non-empty string is truthy
Truthy(x) == x.t = "string" /\ x.v # <<>>

\* a || b
Or(a, b) == IF Truthy(a) THEN a ELSE b

\* obj.key of a parsed JSON object: undefined when the key is absent
Get(obj, key) == IF key \in DOMAIN obj THEN Str(obj[key]) ELSE Undefined

WhiteSpace == {" "}

RECURSIVE TrimStart(_)
TrimStart(s) ==
    IF s # <<>> /\ Head(s) \in WhiteSpace THEN TrimStart(Tail(s)) ELSE s

RECURSIVE TrimEnd(_)
TrimEnd(s) ==
    IF s # <<>> /\ s[Len(s)] \in WhiteSpace
    THEN TrimEnd(SubSeq(s, 1, Len(s) - 1))
    ELSE s

\* String.prototype.trim
Trim(s) == TrimEnd(TrimStart(s))

\* --------------------------------------------------------- language mapper
\* mapLanguage with a default branch that returns English instead of null
mapLanguage_DefaultEn(uiLang) ==
    CASE uiLang = <<"kn-en">> -> Str(<<"kn">>)
      [] uiLang = <<"hi-en">> -> Str(<<"hi">>)
      [] uiLang = <<"ta-en">> -> Str(<<"ta">>)
      [] uiLang = <<"te-en">> -> Str(<<"te">>)
      [] uiLang = <<"en">> -> Str(<<"en">>)
      [] uiLang = <<"auto">> -> Null
      [] OTHER -> Str(<<"en">>)

mapLanguage(uiLang) ==
    CASE uiLang = <<"kn-en">> -> Str(<<"kn">>)
      [] uiLang = <<"hi-en">> -> Str(<<"hi">>)
      [] uiLang = <<"ta-en">> -> Str(<<"ta">>)
      [] uiLang = <<"te-en">> -> Str(<<"te">>)
      [] uiLang = <<"en">> -> Str(<<"en">>)
      [] uiLang = <<"auto">> -> Null
      [] OTHER -> Null

\* the language default taken as "en" instead of "kn-en"
uiLanguageOf_DefaultEn(language) == Trim(Or(language, Str(<<"en">>)).v)

\* const uiLanguage = (req.body.language || "kn-en").trim()
uiLanguageOf(language) == Trim(Or(language, Str(<<"kn-en">>)).v)

\* transcriptionPayload: the language key is set only for a truthy langCode
transcriptionPayload(wav, langCode) ==
    IF Truthy(langCode)
    THEN [file |-> wav, model |-> <<"gpt-4o-transcribe">>, language |-> langCode.v]
    ELSE [file |-> wav, model |-> <<"gpt-4o-transcribe">>]

\* the template literal: fixed instructions with the transcript embedded in quotes
medicalPrompt(rawText) ==
    <<"You are a clinical assistant. ... respecting all rules above: \"">>
        \o rawText \o <<"\"">>

\* ------------------------------------------------------------- responses
Json(status, obj) == [status |-> status, json |-> TRUE, body |-> obj]
Html(status, text) == [status |-> status, json |-> FALSE, body |-> [html |-> text]]

NoAudioBody == [raw |-> <<>>, doctorSummary |-> <<"No audio received.">>]
FailedBody == [raw |-> <<>>, doctorSummary |-> <<"Processing failed.">>]
\* the two values of the success body exchanged
SuccessBody_Swapped(rawText, doctorSummary) == [raw |-> doctorSummary, doctorSummary |-> rawText]

SuccessBody(rawText, doctorSummary) == [raw |-> rawText, doctorSummary |-> doctorSummary]

\* res.json(obj): status 200, JSON body
resJson(obj) == Json(200, obj)

\* express: no route matched (finalhandler), error passed to next() (default handler)
NotFound == Html(404, <<"Cannot POST">>)
ServerError == Html(500, <<"MulterError">>)

\* ------------------------------------------------------------ file system
\* multer({ dest: "uploads/" }): dest + a file name of 16 random bytes in hex,
\* without extension; the names of different uploads differ, so the name of
\* an upload is represented by the index of its request
UploadPath(n) == <<"uploads/", ToString(n)>>

\* one fixed output file for every conversion
WavPathOf_Fixed(inputPath) == Str(<<"uploads/", "converted.wav">>)

\* inputPath + ".wav"
WavPathOf(inputPath) == Str(inputPath.v \o <<".wav">>)

\* if (p && fs.existsSync(p)) fs.unlinkSync(p), with unlinkSync raising when
\* fails is TRUE; thrown tells whether the statement raised
UnlinkIfExists(d, p, fails) ==
    IF Truthy(p) /\ p.v \in d
    THEN IF fails THEN [disk |-> d, thrown |-> TRUE]
                  ELSE [disk |-> d \ {p.v}, thrown |-> FALSE]
    ELSE [disk |-> d, thrown |-> FALSE]

\* the body of the cleanup try block: two statements in sequence, the second
\* is skipped when the first raises
CleanupBody(d, inP, wavP, inFails, wavFails) ==
    LET first == UnlinkIfExists(d, inP, inFails)
    IN  IF first.thrown THEN first
        ELSE UnlinkIfExists(first.disk, wavP, wavFails)

\* what the cleanup catch logs: which unlinkSync raised, if any
CleanupLog(d, inP, wavP, inFails, wavFails) ==
    IF ~CleanupBody(d, inP, wavP, inFails, wavFails).thrown THEN <<>>
    ELSE IF UnlinkIfExists(d, inP, inFails).thrown
         THEN <<"unlink error: input">>
         ELSE <<"unlink error: wav">>

\* the cleanup without its try/catch: an unlink error escapes
TryCleanup_NoCatch(d, inP, wavP, inFails, wavFails) ==
    [disk |-> CleanupBody(d, inP, wavP, inFails, wavFails).disk,
     thrown |-> CleanupBody(d, inP, wavP, inFails, wavFails).thrown]

\* try { ... } catch (cleanupErr) { console.error(...) }: nothing escapes
TryCleanup(d, inP, wavP, inFails, wavFails) ==
    [disk |-> CleanupBody(d, inP, wavP, inFails, wavFails).disk, thrown |-> FALSE]

\* ----------------------------------------------------------------- inputs
KnownTags == {<<"kn-en">>, <<"hi-en">>, <<"ta-en">>, <<"te-en">>, <<"en">>, <<"auto">>}

TagTokens == {" ", "kn-en", "hi-en", "ta-en", "te-en", "en", "auto", "fr"}

RECURSIVE SeqsUpTo(_, _)
SeqsUpTo(S, n) ==
    IF n = 0 THEN {<<>>}
    ELSE LET shorter == SeqsUpTo(S, n - 1)
         IN  shorter \cup {Append(s, x) : s \in shorter, x \in S}

\* req.body.language: absent, or any string of at most MaxTagLen tokens
AllLanguages == {Undefined} \cup {Str(s) : s \in SeqsUpTo(TagTokens, MaxTagLen)}

\* the language values of the concurrent specification
FewLanguages == {Undefined, Str(<<"fr">>)}

\* the value of the client's language <select>
ClientLanguages == {<<"kn-en">>, <<"auto">>}

\* multipart part that carries a file: none, the field "audio", another field
FileFields == {"none", "audio", "other"}

\* transcription.text as returned by the transcription service
TranscriptTexts == {Undefined, Str(<<"Dolo 650 twice a day">>)}

\* summaryResponse.choices[0].message.content as generated
Summaries == {<<"### Assessment & Plan">>, <<"### Assessment & Plan", "**Medication:**">>}

\* ------------------------------------------------------------------ state
VARIABLES
    pc,            \* per request: position of its handler
    request,       \* per request: what was submitted (path, file field, language)
    inputPath,     \* per request: handler local
    wavPath,       \* per request: handler local
    uiLanguage,    \* per request: handler local
    langCode,      \* per request: handler local
    transcription, \* per request: handler local, result of the transcription call
    summaryResponse, \* per request: handler local, result of the summarization call
    disk,          \* paths that exist in the file system
    ffmpegCalls,   \* per request: convertToWav invocations
    sttCalls,      \* per request: payloads sent to the transcription service
    llmCalls,      \* per request: prompts sent to the summarization service
    events,        \* per request: outcomes observed (stage failures, unlink errors)
    responses,     \* per request: responses written to the socket
    fetchState,    \* client: per request, state of the fetch promise chain
    dom,           \* client: values of the rawText and doctorOutput elements
    mediaRecorder, \* client: let mediaRecorder (0 while undefined)
    audioChunks,   \* client: let audioChunks
    isRecording,   \* client: let isRecording
    recorder,      \* client: per startRecording invocation, state of its recorder
    language,      \* client: value of the language <select>
    localStorage   \* client: the stored doctor_voice_language

vars == <<pc, request, inputPath, wavPath, uiLanguage, langCode, transcription,
          summaryResponse, disk, ffmpegCalls, sttCalls, llmCalls, events,
          responses, fetchState, dom, mediaRecorder, audioChunks, isRecording,
          recorder, language, localStorage>>

serverLocals == <<inputPath, wavPath, uiLanguage, langCode, transcription,
                  summaryResponse>>
serviceCalls == <<ffmpegCalls, sttCalls, llmCalls>>
recorderVars == <<mediaRecorder, audioChunks, isRecording, recorder>>
clientVars == <<fetchState, dom, recorderVars, language, localStorage>>

NoRequest ==
    [path |-> "", fileField |-> "none", audio |-> <<>>, language |-> Undefined,
     from |-> "", recording |-> 0]

Init ==
    /\ pc = [r \in Req |-> "idle"]
    /\ request = [r \in Req |-> NoRequest]
    /\ inputPath = [r \in Req |-> Undefined]
    /\ wavPath = [r \in Req |-> Undefined]
    /\ uiLanguage = [r \in Req |-> Undefined]
    /\ langCode = [r \in Req |-> Undefined]
    /\ transcription = [r \in Req |-> Undefined]
    /\ summaryResponse = [r \in Req |-> Undefined]
    /\ disk = {}
    /\ ffmpegCalls = [r \in Req |-> <<>>]
    /\ sttCalls = [r \in Req |-> <<>>]
    /\ llmCalls = [r \in Req |-> <<>>]
    /\ events = [r \in Req |-> <<>>]
    /\ responses = [r \in Req |-> <<>>]
    /\ fetchState = [r \in Req |-> "none"]
    /\ dom = [rawText |-> <<>>, doctorOutput |-> <<>>]
    /\ mediaRecorder = 0
    /\ audioChunks = <<>>
    /\ isRecording = FALSE
    /\ recorder = [k \in Rec |-> "new"]
    /\ language = <<"kn-en">>
    /\ localStorage = Undefined

\* const rawText = transcription.text || ""
rawTextOf(tr) == Or(tr, Str(<<>>)).v

\* ---------------------------------------------------------------- routing
\* app.post("/transcribe", upload.single("audio"), handler): the only POST route
RouteMatches(path) == path = "/transcribe"

\* express receives a POST: either the route matches and multer starts reading
\* the body, or no route matches and the request is answered 404
Receive(r, rq) ==
    /\ pc[r] = "idle"
    /\ request' = [request EXCEPT ![r] = rq]
    /\ IF RouteMatches(rq.path)
       THEN /\ pc' = [pc EXCEPT ![r] = "upload"]
            /\ responses' = responses
       ELSE /\ pc' = [pc EXCEPT ![r] = "done"]
            /\ responses' = [responses EXCEPT ![r] = Append(@, NotFound)]
    /\ UNCHANGED <<serverLocals, serviceCalls, disk, events>>

\* a request sent to the endpoint by any HTTP client
Arrive(r, Languages) ==
    /\ pc[r] = "idle"
    /\ \E f \in FileFields, l \in Languages :
          Receive(r, [path |-> "/transcribe", fileField |-> f,
                      audio |-> IF f = "none" THEN <<>> ELSE <<0>>,
                      language |-> l, from |-> "direct", recording |-> 0])
    /\ UNCHANGED clientVars

\* a catch branch that returns the transcript obtained so far
CatchBranch_Partial(r, d, inP, wavP, stage, inFails, wavFails) ==
    LET c == TryCleanup(d, inP, wavP, inFails, wavFails)
    IN  /\ disk' = c.disk
        /\ events' = [events EXCEPT ![r] =
                @ \o <<stage>> \o CleanupLog(d, inP, wavP, inFails, wavFails)]
        /\ pc' = [pc EXCEPT ![r] = "done"]
        /\ responses' = [responses EXCEPT ![r] = Append(@,
                resJson([raw |-> rawTextOf(transcription[r]),
                         doctorSummary |-> <<"Processing failed.">>]))]

\* a catch branch that cleans up and forgets to answer
CatchBranch_Silent(r, d, inP, wavP, stage, inFails, wavFails) ==
    LET c == TryCleanup(d, inP, wavP, inFails, wavFails)
    IN  /\ disk' = c.disk
        /\ events' = [events EXCEPT ![r] =
                @ \o <<stage>> \o CleanupLog(d, inP, wavP, inFails, wavFails)]
        /\ pc' = [pc EXCEPT ![r] = "done"]
        /\ responses' = responses

\* the catch (err) branch: log, cleanup, res.json(failed); a throw out of it
\* rejects the handler's promise and no response is written
CatchBranch(r, d, inP, wavP, stage, inFails, wavFails) ==
    LET c == TryCleanup(d, inP, wavP, inFails, wavFails)
    IN  /\ disk' = c.disk
        /\ events' = [events EXCEPT ![r] =
                @ \o <<stage>> \o CleanupLog(d, inP, wavP, inFails, wavFails)]
        /\ IF c.thrown
           THEN /\ pc' = [pc EXCEPT ![r] = "rejected"]
                /\ responses' = responses
           ELSE /\ pc' = [pc EXCEPT ![r] = "done"]
                /\ responses' = [responses EXCEPT ![r] = Append(@, resJson(FailedBody))]

\* upload.single("audio") finishes reading the body, then the handler runs up
\* to its first await
MulterDone(r) ==
    /\ pc[r] = "upload"
    /\ CASE request[r].fileField = "other" ->
              \* a file in a field other than "audio": next(err), default handler
              /\ pc' = [pc EXCEPT ![r] = "done"]
              /\ responses' = [responses EXCEPT ![r] = Append(@, ServerError)]
              /\ UNCHANGED <<serverLocals, serviceCalls, disk, events>>
         [] request[r].fileField = "none" ->
              \* req.file is undefined: inputPath is undefined
              /\ pc' = [pc EXCEPT ![r] = "done"]
              /\ responses' = [responses EXCEPT ![r] = Append(@, resJson(NoAudioBody))]
              /\ UNCHANGED <<serverLocals, serviceCalls, disk, events>>
         [] request[r].fileField = "audio" ->
              LET file == Str(UploadPath(r))
                  wav == WavPathOf(file)
              IN  /\ disk' = disk \cup {file.v}
                  /\ inputPath' = [inputPath EXCEPT ![r] = file]
                  /\ wavPath' = [wavPath EXCEPT ![r] = wav]
                  /\ ffmpegCalls' = [ffmpegCalls EXCEPT ![r] =
                          Append(@, [input |-> file.v, output |-> wav.v])]
                  /\ pc' = [pc EXCEPT ![r] = "transcoding"]
                  /\ UNCHANGED <<uiLanguage, langCode, transcription,
                                 summaryResponse, sttCalls, llmCalls, events,
                                 responses>>
    /\ UNCHANGED <<request, clientVars>>

\* ffmpeg emits "end": statSync, build the transcription request, call the service
ConvertEnd(r) ==
    /\ pc[r] = "transcoding"
    /\ LET ui == uiLanguageOf(request[r].language)
           code == mapLanguage(ui)
       IN  /\ uiLanguage' = [uiLanguage EXCEPT ![r] = Str(ui)]
           /\ langCode' = [langCode EXCEPT ![r] = code]
           /\ sttCalls' = [sttCalls EXCEPT ![r] =
                   Append(@, transcriptionPayload(wavPath[r].v, code))]
    /\ disk' = disk \cup {wavPath[r].v}
    /\ pc' = [pc EXCEPT ![r] = "transcribing"]
    /\ UNCHANGED <<request, inputPath, wavPath, transcription, summaryResponse,
                   ffmpegCalls, llmCalls, events, responses,
                   clientVars>>

\* ffmpeg emits "error", with or without a partially written output file
ConvertError(r) ==
    /\ pc[r] = "transcoding"
    /\ \E partial \in BOOLEAN, inFails \in BOOLEAN, wavFails \in BOOLEAN :
          CatchBranch(r, IF partial THEN disk \cup {wavPath[r].v} ELSE disk,
                      inputPath[r], wavPath[r], "transcoding failed",
                      inFails, wavFails)
    /\ UNCHANGED <<request, serverLocals, serviceCalls, clientVars>>

\* the transcription call resolves: keep its text, build the prompt, call the
\* summarization service
TranscribeOk(r) ==
    /\ pc[r] = "transcribing"
    /\ \E text \in TranscriptTexts :
          /\ transcription' = [transcription EXCEPT ![r] = text]
          /\ llmCalls' = [llmCalls EXCEPT ![r] =
                  Append(@, medicalPrompt(rawTextOf(text)))]
    /\ pc' = [pc EXCEPT ![r] = "summarizing"]
    /\ UNCHANGED <<request, inputPath, wavPath, uiLanguage, langCode,
                   summaryResponse, disk, ffmpegCalls, sttCalls,
                   events, responses, clientVars>>

\* a rejected transcription call that is sent once more
TranscribeError_Retry(r) ==
    /\ pc[r] = "transcribing"
    /\ Len(sttCalls[r]) < 2
    /\ sttCalls' = [sttCalls EXCEPT ![r] = Append(@, @[1])]
    /\ UNCHANGED <<pc, request, serverLocals, disk, ffmpegCalls, llmCalls, events,
                   responses, clientVars>>

\* the transcription call rejects
TranscribeError(r) ==
    /\ pc[r] = "transcribing"
    /\ \E inFails \in BOOLEAN, wavFails \in BOOLEAN :
          CatchBranch(r, disk, inputPath[r], wavPath[r], "transcription failed",
                      inFails, wavFails)
    /\ UNCHANGED <<request, serverLocals, serviceCalls, clientVars>>

\* the summarization call resolves: cleanup, then the success response; a
\* throw out of the cleanup would land in the catch branch
SummarizeOk(r) ==
    /\ pc[r] = "summarizing"
    /\ \E content \in Summaries, inFails \in BOOLEAN, wavFails \in BOOLEAN :
          LET c == TryCleanup(disk, inputPath[r], wavPath[r], inFails, wavFails)
          IN  /\ summaryResponse' = [summaryResponse EXCEPT ![r] = Str(content)]
              /\ IF c.thrown
                 THEN CatchBranch(r, c.disk, inputPath[r], wavPath[r],
                                  "cleanup escaped", inFails, wavFails)
                 ELSE /\ disk' = c.disk
                      /\ events' = [events EXCEPT ![r] =
                              @ \o CleanupLog(disk, inputPath[r], wavPath[r],
                                              inFails, wavFails)]
                      /\ pc' = [pc EXCEPT ![r] = "done"]
                      /\ responses' = [responses EXCEPT ![r] = Append(@,
                              resJson(SuccessBody(rawTextOf(transcription[r]), content)))]
    /\ UNCHANGED <<request, inputPath, wavPath, uiLanguage, langCode,
                   transcription, serviceCalls, clientVars>>

\* the summarization call rejects (or its response has no choices[0])
SummarizeError(r) ==
    /\ pc[r] = "summarizing"
    /\ \E inFails \in BOOLEAN, wavFails \in BOOLEAN :
          CatchBranch(r, disk, inputPath[r], wavPath[r], "summarization failed",
                      inFails, wavFails)
    /\ UNCHANGED <<request, serverLocals, serviceCalls, clientVars>>

\* ----------------------------------------------------------------- client
\* saveLanguage, the change handler of the language <select>
saveLanguage(l) ==
    /\ l # language
    /\ language' = l
    /\ localStorage' = Str(l)
    /\ UNCHANGED <<pc, request, serverLocals, serviceCalls, disk, events, responses,
                   fetchState, dom, recorderVars>>

\* startRecording up to its await: returns at once while isRecording, else
\* asks for the microphone
startRecording(k) ==
    /\ ~isRecording
    /\ recorder[k] = "new"
    /\ \A j \in Rec : j < k => recorder[j] # "new"
    /\ recorder' = [recorder EXCEPT ![k] = "awaiting"]
    /\ UNCHANGED <<pc, request, serverLocals, serviceCalls, disk, events, responses,
                   fetchState, dom, mediaRecorder, audioChunks, isRecording,
                   language, localStorage>>

\* getUserMedia resolves: the rest of startRecording creates the recorder,
\* empties the chunk buffer, sets the flag and starts the recorder
getUserMediaResolved(k) ==
    /\ recorder[k] = "awaiting"
    /\ mediaRecorder' = k
    /\ audioChunks' = <<>>
    /\ isRecording' = TRUE
    /\ recorder' = [recorder EXCEPT ![k] = "recording"]
    /\ UNCHANGED <<pc, request, serverLocals, serviceCalls, disk, events, responses,
                   fetchState, dom, language, localStorage>>

\* getUserMedia rejects (no permission, no device): startRecording ends
getUserMediaRejected(k) ==
    /\ recorder[k] = "awaiting"
    /\ recorder' = [recorder EXCEPT ![k] = "denied"]
    /\ UNCHANGED <<pc, request, serverLocals, serviceCalls, disk, events, responses,
                   fetchState, dom, mediaRecorder, audioChunks, isRecording,
                   language, localStorage>>

\* stopRecording: returns at once unless isRecording, else stops the
\* recorder that mediaRecorder names and clears the flag
stopRecording ==
    /\ isRecording
    /\ recorder[mediaRecorder] = "recording"
    /\ recorder' = [recorder EXCEPT ![mediaRecorder] = "stopping"]
    /\ isRecording' = FALSE
    /\ UNCHANGED <<pc, request, serverLocals, serviceCalls, disk, events, responses,
                   fetchState, dom, mediaRecorder, audioChunks, language,
                   localStorage>>

\* sendAudioToServer up to its await: FormData with audio and the selected
\* language, fetch("/process-audio")
sendAudioToServer(r, k, audioBlob) ==
    /\ fetchState[r] = "none"
    /\ pc[r] = "idle"
    /\ Receive(r, [path |-> "/process-audio", fileField |-> "audio",
                   audio |-> audioBlob, language |-> Str(language),
                   from |-> "client", recording |-> k])
    /\ fetchState' = [fetchState EXCEPT ![r] = "pending"]

\* a stopped recorder delivers its data and then its stop event, in one
\* task (start() was called without a timeslice, so this is the only
\* dataavailable event): ondataavailable pushes the chunk into audioChunks,
\* onstop builds the blob from audioChunks and calls sendAudioToServer
RecorderStopped(k) ==
    /\ recorder[k] = "stopping"
    /\ audioChunks' = Append(audioChunks, k)
    /\ recorder' = [recorder EXCEPT ![k] = "inactive"]
    /\ \E r \in Req :
          /\ \A q \in Req : q < r => pc[q] # "idle"
          /\ sendAudioToServer(r, k, audioChunks')
    /\ UNCHANGED <<dom, mediaRecorder, isRecording, language, localStorage>>

\* await fetch resolves; response.json() parses the body (rejects on a body
\* that is not JSON); the two elements are set from result.rawText and
\* result.doctorSummary
FetchResolved(r) ==
    /\ fetchState[r] = "pending"
    /\ responses[r] # <<>>
    /\ LET response == responses[r][1]
       IN  IF response.json
           THEN /\ dom' = [rawText |-> Or(Get(response.body, "rawText"), Str(<<>>)).v,
                           doctorOutput |->
                               Or(Get(response.body, "doctorSummary"), Str(<<>>)).v]
                /\ fetchState' = [fetchState EXCEPT ![r] = "shown"]
           ELSE /\ dom' = dom
                /\ fetchState' = [fetchState EXCEPT ![r] = "rejected"]
    /\ UNCHANGED <<pc, request, serverLocals, serviceCalls, disk, events, responses,
                   recorderVars, language, localStorage>>

\* ---------------------------------------------------------- specifications
Handler(r) ==
    \/ MulterDone(r)
    \/ ConvertEnd(r)
    \/ ConvertError(r)
    \/ TranscribeOk(r)
    \/ TranscribeError(r)
    \/ SummarizeOk(r)
    \/ SummarizeError(r)

Next ==
    \/ \E r \in Req : Arrive(r, FewLanguages)
    \/ \E r \in Req : Handler(r)

Spec == Init /\ [][Next]_vars

\* termination: the requests with one language value
FairNext ==
    \/ \E r \in Req : Arrive(r, {Undefined})
    \/ \E r \in Req : Handler(r)

\* the runtime runs every callback that is ready: each external call that
\* has completed or failed resumes its handler
FairSpec == Init /\ [][FairNext]_vars /\ \A r \in Req : WF_vars(Handler(r))

\* the browser client against the server's routing
ClientNext ==
    \/ \E l \in ClientLanguages : saveLanguage(l)
    \/ \E k \in Rec : startRecording(k)
    \/ \E k \in Rec : getUserMediaResolved(k)
    \/ \E k \in Rec : getUserMediaRejected(k)
    \/ stopRecording
    \/ \E k \in Rec : RecorderStopped(k)
    \/ \E r \in Req : FetchResolved(r)

ClientSpec == Init /\ [][ClientNext]_vars

\* one request at a time, every language value
LangNext ==
    \/ Arrive(1, AllLanguages)
    \/ Handler(1)

LangSpec == Init /\ [][LangNext]_vars

\* ------------------------------------------------- vocabulary of the claims
StageFailures == {"transcoding failed", "transcription failed", "summarization failed"}

Has(r, e) == \E i \in 1..Len(events[r]) : events[r][i] = e

StageFailed(r) == \E e \in StageFailures : Has(r, e)

CleanupRaised(r) == Has(r, "unlink error: input") \/ Has(r, "unlink error: wav")

Responded(r) == responses[r] # <<>>

\* the handler finished the pipeline without a stage failure
PipelineSucceeded(r) ==
    /\ summaryResponse[r] # Undefined
    /\ ~StageFailed(r)
    /\ pc[r] \notin {"idle", "upload", "transcoding", "transcribing", "summarizing"}

ProcessingFailedResponse ==
    [status |-> 200, json |-> TRUE,
     body |-> [raw |-> <<>>, doctorSummary |-> <<"Processing failed.">>]]

NoAudioResponse ==
    [status |-> 200, json |-> TRUE,
     body |-> [raw |-> <<>>, doctorSummary |-> <<"No audio received.">>]]

\* the response that the request's own stage outcomes call for
OwnOutcomeResponse(r) ==
    IF StageFailed(r) THEN ProcessingFailedResponse
    ELSE [status |-> 200, json |-> TRUE,
          body |-> [raw |-> IF Truthy(transcription[r]) THEN transcription[r].v ELSE <<>>,
                    doctorSummary |-> summaryResponse[r].v]]

FilesOf(r) ==
    (IF Truthy(inputPath[r]) THEN {inputPath[r].v} ELSE {})
        \cup (IF Truthy(wavPath[r]) THEN {wavPath[r].v} ELSE {})

\* ------------------------------------------------------------------- C1
\* C1: whenever a stage (transcoding, transcription, summarization) of a
\* request has failed, the one response of that request is exactly
\* { raw: "", doctorSummary: "Processing failed." } with status 200; a
\* transcript already obtained is not in it.
C1_FailureResponseIsGeneric ==
    \A r \in Req : StageFailed(r) => responses[r] = <<ProcessingFailedResponse>>

\* a request whose transcript was obtained and whose summarization failed
C1_Witness ==
    \E r \in Req :
        /\ Has(r, "summarization failed")
        /\ Truthy(transcription[r])
        /\ responses[r] = <<ProcessingFailedResponse>>

\* ------------------------------------------------------------------- C2
\* C2: after a stage failure, once the response is written, neither the
\* original upload nor the .wav file (complete or partial) is on disk.
C2_NoFilesAfterFailure ==
    \A r \in Req : StageFailed(r) /\ Responded(r) => FilesOf(r) \cap disk = {}

\* ------------------------------------------------------------------- C3
\* C3: after a successful pipeline, once the response is written, neither
\* the original upload nor the .wav file is on disk.
C3_NoFilesAfterSuccess ==
    \A r \in Req : PipelineSucceeded(r) /\ Responded(r) => FilesOf(r) \cap disk = {}

\* ------------------------------------------------------------------- C4
\* C4: a request to the endpoint without an audio field is answered exactly
\* { raw: "", doctorSummary: "No audio received." } and nothing else happens
\* for it: no transcoder, transcription or summarization call, no temp file.
C4_NoAudioAnsweredAtOnce ==
    \A r \in Req :
        /\ request[r].path = "/transcribe"
        /\ request[r].fileField # "audio"
        /\ pc[r] \notin {"idle", "upload"}
        => /\ responses[r] = <<NoAudioResponse>>
           /\ ffmpegCalls[r] = <<>> /\ sttCalls[r] = <<>> /\ llmCalls[r] = <<>>
           /\ FilesOf(r) = {}

\* ------------------------------------------------------------------- C5
\* C5: when an unlink raised during cleanup, the response is still the one
\* the stage outcomes call for: { raw: transcript, doctorSummary: summary }
\* after a successful pipeline, the Processing-failed body after a failure.
C5_CleanupErrorKeepsResponse ==
    \A r \in Req : CleanupRaised(r) => responses[r] = <<OwnOutcomeResponse(r)>>

\* one request succeeded and one failed, an unlink raised in both
C5_Witness ==
    \E r \in Req, q \in Req :
        /\ CleanupRaised(r) /\ PipelineSucceeded(r)
        /\ responses[r] = <<OwnOutcomeResponse(r)>>
        /\ CleanupRaised(q) /\ StageFailed(q)
        /\ responses[q] = <<ProcessingFailedResponse>>

\* ------------------------------------------------------------------- C6
\* C6 as stated: for every submitted language tag outside the known set
\* (the empty string and tags with surrounding whitespace included), the
\* transcription call carries no language hint.
C6_UnknownTagNoHint ==
    \A r \in Req :
        /\ request[r].language.t = "string"
        /\ request[r].language.v \notin KnownTags
        /\ sttCalls[r] # <<>>
        => "language" \notin DOMAIN sttCalls[r][1]

\* C6 as amended: a non-empty tag whose trimmed value is outside the known
\* set gives a call without a language hint; the empty tag is treated as an
\* absent field (hint kn); and whatever the tag, a request whose transcoding
\* ended makes the transcription call (the tag does not fail the request).
C6_TrimmedUnknownTagNoHint ==
    \A r \in Req :
        /\ request[r].language.t = "string" /\ sttCalls[r] # <<>>
           => LET tag == request[r].language.v
                  payload == sttCalls[r][1]
              IN  /\ tag # <<>> /\ Trim(tag) \notin KnownTags
                     => "language" \notin DOMAIN payload
                  /\ tag = <<>>
                     => "language" \in DOMAIN payload /\ payload.language = <<"kn">>
        /\ pc[r] \in {"transcribing", "summarizing"} => Len(sttCalls[r]) = 1
        /\ Has(r, "transcription failed") \/ Has(r, "summarization failed")
               \/ PipelineSucceeded(r)
           => Len(sttCalls[r]) = 1

\* an unknown tag with surrounding whitespace went out without a hint
C6_Witness ==
    \E r \in Req :
        /\ request[r].language.t = "string"
        /\ Trim(request[r].language.v) # request[r].language.v
        /\ Trim(request[r].language.v) \notin KnownTags
        /\ Trim(request[r].language.v) # <<>>
        /\ sttCalls[r] # <<>>
        /\ "language" \notin DOMAIN sttCalls[r][1]

\* ------------------------------------------------------------------- C7
\* C7: every response to a request to the endpoint has status 200 and a
\* JSON body with exactly the keys raw and doctorSummary.
C7_Always200Json ==
    \A r \in Req :
        request[r].path = "/transcribe" /\ Responded(r)
        => /\ responses[r][1].status = 200
           /\ responses[r][1].json
           /\ DOMAIN responses[r][1].body = {"raw", "doctorSummary"}

\* ------------------------------------------------------------------- C8
\* the requests whose handler does not move in a step
Idle(r) == pc'[r] = pc[r]

C8_DistinctPaths ==
    \A r \in Req, q \in Req : r # q => FilesOf(r) \cap FilesOf(q) = {}

C8_OwnFilesOnly ==
    \A r \in Req :
        /\ \A i \in 1..Len(ffmpegCalls[r]) :
              /\ ffmpegCalls[r][i].input = inputPath[r].v
              /\ ffmpegCalls[r][i].output = wavPath[r].v
        /\ \A i \in 1..Len(sttCalls[r]) : sttCalls[r][i].file = wavPath[r].v

C8_OwnOutcomeOnly ==
    \A r \in Req :
        Truthy(inputPath[r]) /\ Responded(r) => responses[r] = <<OwnOutcomeResponse(r)>>

C8_Frame ==
    \A r \in Req :
        Idle(r) => /\ disk' \cap FilesOf(r) = disk \cap FilesOf(r)
                   /\ inputPath'[r] = inputPath[r] /\ wavPath'[r] = wavPath[r]
                   /\ transcription'[r] = transcription[r]
                   /\ summaryResponse'[r] = summaryResponse[r]
                   /\ responses'[r] = responses[r]

\* C8: in every interleaving the upload and .wav paths of two requests are
\* all distinct, each request's transcoder and transcription calls use its
\* own paths, a step of one request leaves the other's files, locals and
\* response untouched, and each response is the one its own outcomes call for.
C8_RequestsIndependent ==
    /\ [](C8_DistinctPaths /\ C8_OwnFilesOnly /\ C8_OwnOutcomeOnly)
    /\ [][C8_Frame]_vars

\* two requests in flight with their files on disk while one is cleaned up
C8_Witness ==
    \E r \in Req, q \in Req :
        /\ r # q
        /\ Has(r, "transcription failed") /\ Responded(r)
        /\ FilesOf(r) \cap disk = {}
        /\ pc[q] = "transcribing"
        /\ FilesOf(q) \subseteq disk /\ Cardinality(FilesOf(q)) = 2

\* ------------------------------------------------------------------- C9
\* C9: an upload of the browser client is answered by the pipeline of
\* POST /transcribe (status 200, JSON { raw, doctorSummary }) and the client
\* shows the transcript and the summary of that answer.
C9_ClientShowsPipelineResult ==
    \A r \in Req :
        request[r].from = "client" /\ fetchState[r] \notin {"none", "pending"}
        => /\ responses[r][1].status = 200
           /\ responses[r][1].json
           /\ fetchState[r] = "shown"

\* ------------------------------------------------------------------ C10
LanguageTable(tag) ==
    CASE tag = <<"kn-en">> -> {<<"kn">>}
      [] tag = <<"hi-en">> -> {<<"hi">>}
      [] tag = <<"ta-en">> -> {<<"ta">>}
      [] tag = <<"te-en">> -> {<<"te">>}
      [] tag = <<"en">> -> {<<"en">>}
      [] OTHER -> {}

\* C10: the code mapLanguage returned for the tag it was given is the one of
\* the table (kn-en kn, hi-en hi, ta-en ta, te-en te, en en), and no code
\* for auto and for every other tag; it is what the call carries as hint;
\* a request without a language field is mapped as kn-en and carries kn.
C10_MapLanguageTable ==
    \A r \in Req :
        sttCalls[r] # <<>>
        => /\ uiLanguage[r].t = "string"
           /\ (IF Truthy(langCode[r]) THEN {langCode[r].v} ELSE {})
                 = LanguageTable(uiLanguage[r].v)
           /\ langCode[r] \in {Null} \cup {Str(c) : c \in LanguageTable(uiLanguage[r].v)}
           /\ (IF "language" \in DOMAIN sttCalls[r][1]
               THEN {sttCalls[r][1].language} ELSE {})
                 = LanguageTable(uiLanguage[r].v)
           /\ request[r].language = Undefined
              => uiLanguage[r] = Str(<<"kn-en">>) /\ sttCalls[r][1].language = <<"kn">>

\* a request without a language field went out with the hint kn, another
\* tag was unknown and went out without hint
C10_Witness ==
    \E r \in Req :
        /\ request[r].language = Undefined
        /\ sttCalls[r] # <<>>
        /\ "language" \in DOMAIN sttCalls[r][1]
        /\ sttCalls[r][1].language = <<"kn">>

C13_AtMostOnce ==
    \A r \in Req :
        /\ Len(ffmpegCalls[r]) <= 1 /\ Len(sttCalls[r]) <= 1 /\ Len(llmCalls[r]) <= 1
        /\ sttCalls[r] # <<>> => ffmpegCalls[r] # <<>> /\ ~Has(r, "transcoding failed")
        /\ llmCalls[r] # <<>> => sttCalls[r] # <<>> /\ ~Has(r, "transcription failed")

\* the step deletes a file of r or logs an unlink error of r
CleanupStep(r) ==
    \/ (FilesOf(r) \cap disk) \ disk' # {}
    \/ CleanupRaised(r)' /\ ~CleanupRaised(r)

C13_InOrder ==
    \A r \in Req :
        /\ Len(sttCalls'[r]) > Len(sttCalls[r])
           => /\ pc[r] = "transcoding" /\ ffmpegCalls[r] # <<>>
              /\ wavPath[r].v \in disk'
        /\ Len(llmCalls'[r]) > Len(llmCalls[r])
           => /\ pc[r] = "transcribing" /\ sttCalls[r] # <<>>
              /\ ~StageFailed(r)'
        /\ CleanupStep(r)
           => \/ pc[r] = "summarizing" /\ summaryResponse'[r] # Undefined
              \/ StageFailed(r)' /\ ~StageFailed(r)

\* C13: per request each of the transcoder, the transcription service and
\* the summarization service is called at most once; the transcription call
\* is made in the step in which transcoding ended, the summarization call in
\* the step in which the transcription resolved, and files are deleted only
\* in the step in which summarization resolved or a stage failed.
C13_StrictSequenceNoRetry == [](C13_AtMostOnce) /\ [][C13_InOrder]_vars

\* a request that went through the three calls and was cleaned up
C13_Witness ==
    \E r \in Req :
        /\ PipelineSucceeded(r) /\ Responded(r)
        /\ Len(ffmpegCalls[r]) = 1 /\ Len(sttCalls[r]) = 1 /\ Len(llmCalls[r]) = 1
        /\ FilesOf(r) \cap disk = {}

\* ------------------------------------------------------------------ C14
\* C14: after the cleanup of a request (success or failure path), a file of
\* the request is still on disk only if its own unlink raised: an error of
\* the upload's unlink does not keep the .wav from being deleted.
C14_CleanupIndependent ==
    \A r \in Req :
        Truthy(inputPath[r]) /\ Responded(r)
        => /\ inputPath[r].v \in disk => Has(r, "unlink error: input")
           /\ wavPath[r].v \in disk => Has(r, "unlink error: wav")

\* ------------------------------------------------------------------ C15
C15_AtMostOneResponse ==
    \A r \in Req :
        /\ Len(responses[r]) <= 1
        /\ pc[r] \in {"done", "rejected"} => Len(responses[r]) = 1

\* C15: no request is ever answered twice, a request whose handling has
\* ended has been answered, and every request that was received is
\* eventually answered (exactly once), given that every external call
\* completes or fails.
C15_AnsweredExactlyOnce ==
    /\ []C15_AtMostOneResponse
    /\ \A r \in Req : (pc[r] # "idle") ~> (pc[r] = "done" /\ Len(responses[r]) = 1)

\* requests answered on the four kinds of path: no audio, success, stage
\* failure, cleanup failure
C15_Witness ==
    \E r \in Req, q \in Req :
        /\ pc[r] = "done" /\ responses[r] = <<NoAudioResponse>>
        /\ pc[q] = "done" /\ CleanupRaised(q) /\ Len(responses[q]) = 1

\* ------------------------------------------------------------------ C12
\* C12: every upload of the client carries exactly the chunk(s) of the
\* recording whose stop produced it, and every recording that was started
\* and stopped has produced exactly one upload.
C12_UploadIsOwnRecording ==
    /\ \A r \in Req :
          request[r].from = "client" => request[r].audio = <<request[r].recording>>
    /\ \A k \in Rec :
          recorder[k] = "inactive"
          => Cardinality({r \in Req : request[r].from = "client"
                                      /\ request[r].recording = k}) = 1

\* ------------------------------------------------------------------ C16
\* C16: at most one recorder is pending or recording at any time, and every
\* recorder that is recording is the one a stop click would stop.
C16_OneActiveRecorder ==
    /\ Cardinality({k \in Rec : recorder[k] \in {"awaiting", "recording"}}) <= 1
    /\ \A k \in Rec : recorder[k] = "recording" => isRecording /\ mediaRecorder = k

====
